---- MODULE Spec2Model ----
(***************************************************************************)
(* Model of microsoft_domains.py: the JSON cache (use_cache and its        *)
(* helpers), the item extractor (get_items), the output writer             *)
(* (write_to_file) and the CLI driver (main).                              *)
(*                                                                         *)
(* Text (a response body, the content of a cache file) is a sequence of    *)
(* lexemes [k, v]: punctuation "p", whitespace "ws", a string literal      *)
(* "str", a number "num", a literal name "lit" (true, false, null), a      *)
(* character that starts no JSON value "junk", and a byte that the text    *)
(* decoder of open(..., "r") rejects, "byte".                              *)
(* A JSON value is a tagged record [t, v]: a scalar keeps its lexeme, an   *)
(* array is a sequence of values, an object a sequence of <<key, value>>   *)
(* pairs in insertion order (a Python dict).                               *)
(***************************************************************************)
EXTENDS Integers, Sequences, FiniteSets, TLC

VARIABLES
    now,          \* time.time(), in seconds
    cacheFolder,  \* whether CACHE_FOLDER exists
    files,        \* cache key -> the cache file: [exists, content, mtime]
    call,         \* the most recent use_cache call: its arguments and what it did
    fetched,      \* cache key -> the value its producer last returned (history)
    payload,      \* cache key -> the response body of that fetch (history)
    ticks,        \* number of clock steps taken
    pc,           \* position of the CLI invocation in main
    regions,      \* main: the lowercased region choices
    args,         \* main: the parsed arguments
    stdout,       \* main: the lines printed
    trace,        \* main: the use_cache calls of this invocation, in order
    idata,        \* item extractor: the endpoint descriptors given
    iargs,        \* item extractor: [item, required]
    iresult,      \* item extractor: what get_items returned for required-only on / off
    outfile,      \* output writer: the output file [exists, content]
    wlast,        \* output writer: the most recent write_to_file call
    wlog          \* output writer: the writes since the file was last overwritten

vars == <<now, cacheFolder, files, call, fetched, payload, ticks, pc, regions, args,
          stdout, trace, idata, iargs, iresult, outfile, wlast, wlog>>

cacheVars == <<now, cacheFolder, files, call, fetched, payload, ticks>>
mainVars == <<pc, regions, args, stdout, trace>>
itemVars == <<idata, iargs, iresult>>
outVars == <<outfile, wlast, wlog>>

-----------------------------------------------------------------------------
(* Bounds of the model *)

MaxTicks == 2
MaxServices == 2
MaxWrites == 2
MaxLines == 2

-----------------------------------------------------------------------------
(* Program constants *)

CACHE_TIMEOUT == 3600

(* "\n" *)
NL == 10

-----------------------------------------------------------------------------
(* Text and JSON values *)

P(c) == [k |-> "p", v |-> c]
Sp == [k |-> "ws", v |-> " "]
Str(s) == [k |-> "str", v |-> s]
Num(s) == [k |-> "num", v |-> s]
Lit(s) == [k |-> "lit", v |-> s]
Junk == [k |-> "junk", v |-> "x"]
BadByte == [k |-> "byte", v |-> "0xff"]

VStr(s) == [t |-> "str", v |-> s]
VLit(s) == [t |-> "lit", v |-> s]
VNum(s) == [t |-> "num", v |-> s]
VArr(seq) == [t |-> "arr", v |-> seq]
VObj(pairs) == [t |-> "obj", v |-> pairs]
NoValue == [t |-> "none", v |-> "none"]

RECURSIVE SkipWs(_)
SkipWs(s) ==
    IF s # <<>> /\ Head(s).k = "ws" THEN SkipWs(Tail(s)) ELSE s

IsTok(s, c) == s # <<>> /\ Head(s) = P(c)

ParseFail == [ok |-> FALSE, val |-> NoValue, rest |-> <<>>]

(* dict(pairs): a repeated key keeps its first position and takes the last value *)
RECURSIVE DictSet(_, _, _)
DictSet(pairs, key, val) ==
    IF pairs = <<>> THEN << <<key, val>> >>
    ELSE IF Head(pairs)[1] = key THEN << <<key, val>> >> \o Tail(pairs)
    ELSE <<Head(pairs)>> \o DictSet(Tail(pairs), key, val)

(* json.loads: the decoder of one value, of the elements of an array after   *)
(* "[", and of the members of an object after "{".                           *)
RECURSIVE ParseValue(_), ParseElems(_, _), ParseMembers(_, _)
ParseValue(s) ==
    IF s = <<>> THEN ParseFail
    ELSE IF Head(s).k \in {"str", "num", "lit"}
    THEN [ok |-> TRUE, val |-> [t |-> Head(s).k, v |-> Head(s).v], rest |-> Tail(s)]
    ELSE IF IsTok(s, "[")
    THEN LET u == SkipWs(Tail(s))
         IN IF IsTok(u, "]") THEN [ok |-> TRUE, val |-> VArr(<<>>), rest |-> Tail(u)]
            ELSE ParseElems(u, <<>>)
    ELSE IF IsTok(s, "{")
    THEN LET u == SkipWs(Tail(s))
         IN IF IsTok(u, "}") THEN [ok |-> TRUE, val |-> VObj(<<>>), rest |-> Tail(u)]
            ELSE ParseMembers(u, <<>>)
    ELSE ParseFail

ParseElems(s, acc) ==
    LET r == ParseValue(s)
    IN IF ~r.ok THEN ParseFail
       ELSE LET u == SkipWs(r.rest)
            IN IF IsTok(u, ",") THEN ParseElems(SkipWs(Tail(u)), Append(acc, r.val))
               ELSE IF IsTok(u, "]")
               THEN [ok |-> TRUE, val |-> VArr(Append(acc, r.val)), rest |-> Tail(u)]
               ELSE ParseFail

ParseMembers(s, acc) ==
    IF s = <<>> \/ Head(s).k # "str" THEN ParseFail
    ELSE LET key == Head(s).v
             u == SkipWs(Tail(s))
         IN IF ~IsTok(u, ":") THEN ParseFail
            ELSE LET r == ParseValue(SkipWs(Tail(u)))
                 IN IF ~r.ok THEN ParseFail
                    ELSE LET w == SkipWs(r.rest)
                             acc2 == DictSet(acc, key, r.val)
                         IN IF IsTok(w, ",") THEN ParseMembers(SkipWs(Tail(w)), acc2)
                            ELSE IF IsTok(w, "}")
                            THEN [ok |-> TRUE, val |-> VObj(acc2), rest |-> Tail(w)]
                            ELSE ParseFail

(* parse_json(string): [ok, val]; ok = FALSE is json.decoder.JSONDecodeError *)
parse_json(string) ==
    LET r == ParseValue(SkipWs(string))
    IN IF r.ok /\ SkipWs(r.rest) = <<>> THEN [ok |-> TRUE, val |-> r.val]
       ELSE [ok |-> FALSE, val |-> NoValue]

(* json.dumps(data) with the default separators ", " and ": " *)
RECURSIVE json_dumps(_), DumpElems(_), DumpMembers(_)
json_dumps(data) ==
    IF data.t \in {"str", "num", "lit"} THEN << [k |-> data.t, v |-> data.v] >>
    ELSE IF data.t = "arr" THEN <<P("[")>> \o DumpElems(data.v) \o <<P("]")>>
    ELSE <<P("{")>> \o DumpMembers(data.v) \o <<P("}")>>

DumpElems(seq) ==
    IF seq = <<>> THEN <<>>
    ELSE IF Len(seq) = 1 THEN json_dumps(seq[1])
    ELSE json_dumps(Head(seq)) \o <<P(","), Sp>> \o DumpElems(Tail(seq))

DumpMembers(pairs) ==
    IF pairs = <<>> THEN <<>>
    ELSE LET m == <<Str(Head(pairs)[1]), P(":"), Sp>> \o json_dumps(Head(pairs)[2])
         IN IF Len(pairs) = 1 THEN m
            ELSE m \o <<P(","), Sp>> \o DumpMembers(Tail(pairs))

-----------------------------------------------------------------------------
(* Strings as Python compares them: by code point, position by position *)

Spelling ==
    [s \in {"a.com", "b.com", "B.com", "a.co", "10.0.0.0/8", "Worldwide", "worldwide",
            "china", "urls", "ips"} |->
        CASE s = "a.com" -> <<97, 46, 99, 111, 109>>
          [] s = "b.com" -> <<98, 46, 99, 111, 109>>
          [] s = "B.com" -> <<66, 46, 99, 111, 109>>
          [] s = "a.co" -> <<97, 46, 99, 111>>
          [] s = "10.0.0.0/8" -> <<49, 48, 46, 48, 46, 48, 46, 48, 47, 56>>
          [] s = "Worldwide" -> <<87, 111, 114, 108, 100, 119, 105, 100, 101>>
          [] s = "worldwide" -> <<119, 111, 114, 108, 100, 119, 105, 100, 101>>
          [] s = "china" -> <<99, 104, 105, 110, 97>>
          [] s = "urls" -> <<117, 114, 108, 115>>
          [] s = "ips" -> <<105, 112, 115>>]

RECURSIVE SeqLess(_, _)
SeqLess(a, b) ==
    IF b = <<>> THEN FALSE
    ELSE IF a = <<>> THEN TRUE
    ELSE IF Head(a) # Head(b) THEN Head(a) < Head(b)
    ELSE SeqLess(Tail(a), Tail(b))

(* a < b on str *)
StrLess(a, b) == SeqLess(Spelling[a], Spelling[b])

(* str.lower *)
LowerCode(c) == IF c >= 65 /\ c <= 90 THEN c + 32 ELSE c
Lower(s) ==
    CHOOSE t \in DOMAIN Spelling :
        Spelling[t] = [i \in 1..Len(Spelling[s]) |-> LowerCode(Spelling[s][i])]

-----------------------------------------------------------------------------
(* The upstream API: what a GET may answer *)

RegionsKey == <<"regions", ".cache">>
cache_name(region) == <<region, ".cache">>
Keys == {RegionsKey, cache_name("worldwide")}

(* [{"instance":"Worldwide"}], as the server may send it: no blanks *)
RegionsCompact ==
    <<P("["), P("{"), Str("instance"), P(":"), Str("Worldwide"), P("}"), P("]")>>
(* [{"instance": "Worldwide", "latest": "2"}] *)
RegionsLatest ==
    <<P("["), P("{"), Str("instance"), P(":"), Sp, Str("Worldwide"), P(","), Sp,
      Str("latest"), P(":"), Sp, Str("2"), P("}"), P("]")>>
(* [{"instance" : a response cut short *)
RegionsCut == <<P("["), P("{"), Str("instance")>>

(* [{"required":true,"urls":["b.com"]},{"required":false,"urls":["a.com","b.com"]}] *)
EndpointsCompact ==
    <<P("["), P("{"), Str("required"), P(":"), Lit("true"), P(","), Str("urls"), P(":"),
      P("["), Str("b.com"), P("]"), P("}"), P(","),
      P("{"), Str("required"), P(":"), Lit("false"), P(","), Str("urls"), P(":"),
      P("["), Str("a.com"), P(","), Str("b.com"), P("]"), P("}"), P("]")>>
(* [{"required": false, "ips": ["10.0.0.0/8"]}] *)
EndpointsIps ==
    <<P("["), P("{"), Str("required"), P(":"), Sp, Lit("false"), P(","), Sp, Str("ips"),
      P(":"), Sp, P("["), Str("10.0.0.0/8"), P("]"), P("}"), P("]")>>
(* an error page instead of JSON *)
EndpointsJunk == <<Junk, Junk>>

Bodies(key) ==
    IF key = RegionsKey THEN {RegionsCompact, RegionsLatest, RegionsCut}
    ELSE {EndpointsCompact, EndpointsIps, EndpointsJunk}

(* A response: the transport fails (err), or a body arrives *)
NetDown == [err |-> TRUE, body |-> <<>>]
Responses(key) == {NetDown} \cup {[err |-> FALSE, body |-> b] : b \in Bodies(key)}

-----------------------------------------------------------------------------
(* The JSON cache *)

NoFile == [exists |-> FALSE, content |-> <<>>, mtime |-> 0]

(* make_request + parse_json: the producer both accessors pass to use_cache *)
get_json_from_url(resp) ==
    IF resp.err THEN [exc |-> "URLError", val |-> NoValue]
    ELSE LET r == parse_json(resp.body)
         IN IF r.ok THEN [exc |-> "none", val |-> r.val]
            ELSE [exc |-> "JSONDecodeError", val |-> NoValue]

(* cache_avail(cache_file) at time t; a missing file is the OSError branch *)
cache_avail_inclusive(f, t) == f.exists /\ (t - f.mtime <= CACHE_TIMEOUT)
cache_avail(f, t) == f.exists /\ (t - f.mtime < CACHE_TIMEOUT)

(* open(cache_file, "r").read(): text mode decodes the bytes *)
Decodable(content) == \A i \in 1..Len(content) : content[i].k # "byte"

(* load_cache(cache_file) *)
load_cache(f) ==
    IF ~Decodable(f.content) THEN [exc |-> "UnicodeDecodeError", val |-> NoValue]
    ELSE LET r == parse_json(f.content)
         IN IF r.ok THEN [exc |-> "none", val |-> r.val]
            ELSE [exc |-> "JSONDecodeError", val |-> NoValue]

(* write_cache(cache_file, data) at time t: the file it leaves *)
write_cache_cut(f, data, t) ==
    LET text == json_dumps(data)
    IN [exists |-> TRUE, content |-> SubSeq(text, 1, Len(text) - 1), mtime |-> t]
write_cache_append(f, data, t) ==
    [exists |-> TRUE, content |-> f.content \o json_dumps(data), mtime |-> t]
write_cache(f, data, t) ==
    [exists |-> TRUE, content |-> json_dumps(data), mtime |-> t]

(* use_cache.build_cache *)
build_cache_open_first(f, t, resp) ==
    LET r == get_json_from_url(resp)
    IN IF r.exc # "none"
       THEN [exc |-> r.exc, data |-> NoValue, invocations |-> 1,
             file |-> [exists |-> TRUE, content |-> <<>>, mtime |-> t], wrote |-> TRUE]
       ELSE [exc |-> "none", data |-> r.val, invocations |-> 1,
             file |-> write_cache(f, r.val, t), wrote |-> TRUE]
build_cache(f, t, resp) ==
    LET r == get_json_from_url(resp)
    IN IF r.exc # "none"
       THEN [exc |-> r.exc, data |-> NoValue, invocations |-> 1,
             file |-> f, wrote |-> FALSE]
       ELSE [exc |-> "none", data |-> r.val, invocations |-> 1,
             file |-> write_cache(f, r.val, t), wrote |-> TRUE]

(* the test of use_cache: cache_avail(cache_file) and not ignorecache *)
cache_wanted_always(avail, ignorecache) == avail
cache_wanted(avail, ignorecache) == avail /\ ~ignorecache

(* use_cache(cache_file_name, operation, ignorecache) on file f at time t, with *)
(* resp what the operation's request gets: the exception that escapes (or      *)
(* "none"), the data returned, how often the operation ran, how often the file  *)
(* was read, and the file left behind.                                          *)
use_cache(f, t, resp, ignorecache) ==
    IF cache_wanted(cache_avail(f, t), ignorecache)
    THEN LET l == load_cache(f)
         IN IF l.exc = "none"
            THEN [exc |-> "none", data |-> l.val, invocations |-> 0, reads |-> 1,
                  file |-> f, wrote |-> FALSE]
            ELSE IF l.exc = "JSONDecodeError"
            THEN [reads |-> 1] @@ build_cache(f, t, resp)
            ELSE [exc |-> l.exc, data |-> NoValue, invocations |-> 0, reads |-> 1,
                  file |-> f, wrote |-> FALSE]
    ELSE [reads |-> 0] @@ build_cache(f, t, resp)

(* get_regions_data() and get_endpoint_data(region, ignorecache): the use_cache *)
(* call each makes                                                             *)
get_regions_data_forced(f, t, resp) == use_cache(f, t, resp, TRUE)
get_regions_data(f, t, resp) == use_cache(f, t, resp, FALSE)
get_endpoint_data(f, t, resp, ignorecache) == use_cache(f, t, resp, ignorecache)

NoCall == [key |-> <<>>, ignorecache |-> FALSE, resp |-> NetDown, pre |-> NoFile,
           post |-> NoFile, before |-> <<>>, built |-> NoValue, at |-> 0, exc |-> "none",
           data |-> NoValue, invocations |-> 0, reads |-> 0]

(* The effect r of one use_cache call on key, recorded in call *)
RecordCall(key, resp, ignorecache, r) ==
    /\ files' = [files EXCEPT ![key] = r.file]
    /\ cacheFolder' = (cacheFolder \/ r.wrote)
    /\ call' = [key |-> key, ignorecache |-> ignorecache, resp |-> resp,
                pre |-> files[key], post |-> r.file, before |-> files,
                built |-> fetched[key],
                at |-> now, exc |-> r.exc, data |-> r.data,
                invocations |-> r.invocations, reads |-> r.reads]
    /\ fetched' = IF r.wrote THEN [fetched EXCEPT ![key] = r.data] ELSE fetched
    /\ payload' = IF r.wrote THEN [payload EXCEPT ![key] = resp.body] ELSE payload
    /\ UNCHANGED <<now, ticks>>

UseCacheStep(key, resp, ignorecache) ==
    RecordCall(key, resp, ignorecache, use_cache(files[key], now, resp, ignorecache))

(* What a cache file may hold before the tool first runs: nothing, a file cut *)
(* short, bytes that are no text, or a body saved earlier.                    *)
InitialFiles(key) ==
    {NoFile} \cup
    {[exists |-> TRUE, content |-> c, mtime |-> 0] :
        c \in {<<P("["), P("{")>>, <<BadByte, BadByte>>} \cup
              {b \in Bodies(key) : parse_json(b).ok}}

TimeSteps == {1, CACHE_TIMEOUT - 1}

(* The clock advances between calls *)
Tick ==
    /\ ticks < MaxTicks
    /\ \E d \in TimeSteps : now' = now + d
    /\ ticks' = ticks + 1
    /\ call' = NoCall
    /\ UNCHANGED <<cacheFolder, files, fetched, payload>>

-----------------------------------------------------------------------------
(* The item extractor *)

(* key in service, service[key] on a dict *)
Has(service, key) == \E i \in 1..Len(service.v) : service.v[i][1] = key
Get(service, key) ==
    service.v[CHOOSE i \in 1..Len(service.v) : service.v[i][1] = key][2]

Truthy(val) == val = VLit("true")

(* the test of get_items: not (not service["required"] and required) *)
included_if_required(service, required) == Truthy(Get(service, "required"))
included(service, required) == ~(~Truthy(Get(service, "required")) /\ required)

(* the loop of get_items: items.extend(service[item]) for each service taken *)
RECURSIVE collect(_, _, _)
collect(services, item, required) ==
    IF services = <<>> THEN <<>>
    ELSE LET service == Head(services)
             rest == collect(Tail(services), item, required)
         IN IF Has(service, item) /\ included(service, required)
            THEN [i \in 1..Len(Get(service, item).v) |-> Get(service, item).v[i].v] \o rest
            ELSE rest

(* items.sort(): insertion keeps equal strings in their order *)
RECURSIVE insert_sorted(_, _)
insert_sorted(x, sorted) ==
    IF sorted = <<>> THEN <<x>>
    ELSE IF StrLess(x, Head(sorted)) THEN <<x>> \o sorted
    ELSE <<Head(sorted)>> \o insert_sorted(x, Tail(sorted))

RECURSIVE sort(_)
sort(items) ==
    IF items = <<>> THEN <<>>
    ELSE insert_sorted(items[Len(items)], sort(SubSeq(items, 1, Len(items) - 1)))

(* list(OrderedDict.fromkeys(items)): the first occurrence of each, in order *)
RECURSIVE fromkeys(_)
fromkeys(items) ==
    IF items = <<>> THEN <<>>
    ELSE LET front == fromkeys(SubSeq(items, 1, Len(items) - 1))
             x == items[Len(items)]
         IN IF \E i \in 1..Len(front) : front[i] = x THEN front ELSE Append(front, x)

(* get_items, on the data get_endpoint_data returned *)
get_items(data, item, required) == fromkeys(sort(collect(data.v, item, required)))

ItemLists == {<<"b.com", "a.com">>, <<"a.com", "a.co", "a.com">>, <<"B.com">>}
Field(name) ==
    {<<>>} \cup {<< <<name, VArr([i \in 1..Len(l) |-> VStr(l[i])])>> >> : l \in ItemLists}

(* The endpoint descriptors: required, and urls and ips when the service has them *)
Descriptors ==
    {VObj(<< <<"required", VLit(b)>> >> \o u \o p) :
        b \in {"true", "false"}, u \in Field("urls"), p \in Field("ips")}

RECURSIVE SeqsUpTo(_, _)
SeqsUpTo(S, n) ==
    IF n = 0 THEN {<<>>}
    ELSE LET shorter == SeqsUpTo(S, n - 1)
         IN shorter \cup {Append(q, x) : q \in {r \in shorter : Len(r) = n - 1}, x \in S}

(* get_items(region, item, required, ignorecache) once the data is at hand *)
GetItems ==
    /\ ~iresult.done
    /\ iresult' = [done |-> TRUE,
                   got |-> get_items(idata, iargs.item, iargs.required),
                   all |-> get_items(idata, iargs.item, FALSE),
                   req |-> get_items(idata, iargs.item, TRUE)]
    /\ UNCHANGED <<idata, iargs, cacheVars, mainVars, outVars>>

-----------------------------------------------------------------------------
(* The output writer *)

(* the loop of write_to_file: each line, and a newline unless it is the last *)
RECURSIVE write_lines_each(_, _, _)
write_lines_each(data, i, leng) ==
    IF i >= leng THEN <<>>
    ELSE data[i + 1] \o <<NL>> \o write_lines_each(data, i + 1, leng)

RECURSIVE write_lines(_, _, _)
write_lines(data, i, leng) ==
    IF i >= leng THEN <<>>
    ELSE data[i + 1] \o (IF i < leng - 1 THEN <<NL>> ELSE <<>>)
            \o write_lines(data, i + 1, leng)

(* write_to_file(filename, data, append): the file it leaves *)
write_to_file(f, data, append) ==
    [exists |-> TRUE,
     content |-> (IF append THEN f.content ELSE <<>>) \o write_lines(data, 0, Len(data))]

(* "a", "b" and the empty string *)
Entries == {<<97>>, <<98>>, <<>>}

(* One write_to_file call on the output file, recorded in wlast and wlog *)
WriteStep(data, append) ==
    /\ outfile' = write_to_file(outfile, data, append)
    /\ wlast' = [n |-> wlast.n + 1, data |-> data, append |-> append, pre |-> outfile]
    /\ wlog' =
          LET ok == /\ data # <<>>
                    /\ \A i \in 1..Len(data) :
                          data[i] # <<>> /\ NL \notin {data[i][j] : j \in 1..Len(data[i])}
          IN IF append THEN [clean |-> wlog.clean /\ ok, lines |-> wlog.lines \o data]
             ELSE [clean |-> ok, lines |-> data]

WriteToFile ==
    /\ wlast.n < MaxWrites
    /\ \E data \in SeqsUpTo(Entries, MaxLines) : \E append \in BOOLEAN :
          WriteStep(data, append)
    /\ UNCHANGED <<cacheVars, mainVars, itemVars>>

-----------------------------------------------------------------------------
(* The CLI driver *)

(* get_regions_list(): the instance of each region, in order *)
get_regions_list(regions_data) ==
    [i \in 1..Len(regions_data.v) |-> Get(regions_data.v[i], "instance").v]

(* The command lines tried *)
Argv ==
    {[region |-> "Worldwide", item |-> "urls", required |-> FALSE, ignorecache |-> FALSE,
      outfile |-> FALSE, append |-> FALSE],
     [region |-> "worldwide", item |-> "urls", required |-> TRUE, ignorecache |-> TRUE,
      outfile |-> FALSE, append |-> FALSE],
     [region |-> "worldwide", item |-> "ips", required |-> FALSE, ignorecache |-> TRUE,
      outfile |-> TRUE, append |-> TRUE],
     [region |-> "china", item |-> "urls", required |-> FALSE, ignorecache |-> FALSE,
      outfile |-> FALSE, append |-> FALSE]}

NoArgs == [region |-> "", item |-> "", required |-> FALSE, ignorecache |-> FALSE,
           outfile |-> FALSE, append |-> FALSE]

(* str as the characters write_to_file writes *)
Chars(str) == Spelling[str]

Logged(c) == [key |-> c.key, ignorecache |-> c.ignorecache, pre |-> c.pre,
              post |-> c.post, at |-> c.at, invocations |-> c.invocations, exc |-> c.exc]

(* main, lines 268-269: the region list is fetched before the arguments are parsed *)
MainRegions ==
    /\ pc = "start"
    /\ \E resp \in Responses(RegionsKey) :
          RecordCall(RegionsKey, resp, FALSE,
                     get_regions_data(files[RegionsKey], now, resp))
    /\ trace' = <<Logged(call')>>
    /\ IF call'.exc = "none"
       THEN /\ pc' = "parse"
            /\ regions' = [i \in 1..Len(get_regions_list(call'.data)) |->
                              Lower(get_regions_list(call'.data)[i])]
       ELSE /\ pc' = "failed"
            /\ UNCHANGED regions
    /\ UNCHANGED <<args, stdout, itemVars, outVars>>

(* main, line 295: parse_args; a region that is no choice ends the run *)
MainParse ==
    /\ pc = "parse"
    /\ \E argv \in Argv :
          /\ argv.outfile => wlast.n < MaxWrites
          /\ IF Lower(argv.region) \in {regions[i] : i \in 1..Len(regions)}
             THEN /\ args' = [argv EXCEPT !.region = Lower(argv.region),
                                          !.item = Lower(argv.item)]
                  /\ pc' = "items"
             ELSE /\ pc' = "usage"
                  /\ UNCHANGED args
    /\ UNCHANGED <<cacheVars, regions, stdout, trace, itemVars, outVars>>

(* main, lines 297-302: get_items, then the items written to --outfile or *)
(* printed one per line                                                   *)
MainItems ==
    /\ pc = "items"
    /\ \E resp \in Responses(cache_name(args.region)) :
          RecordCall(cache_name(args.region), resp, args.ignorecache,
                     get_endpoint_data(files[cache_name(args.region)], now, resp,
                                       args.ignorecache))
    /\ trace' = Append(trace, Logged(call'))
    /\ IF call'.exc = "none"
       THEN LET data == get_items(call'.data, args.item, args.required)
            IN /\ pc' = "done"
               /\ IF args.outfile
                  THEN /\ WriteStep([i \in 1..Len(data) |-> Chars(data[i])], args.append)
                       /\ UNCHANGED stdout
                  ELSE /\ stdout' = data
                       /\ UNCHANGED outVars
       ELSE /\ pc' = "failed"
            /\ UNCHANGED <<stdout, outVars>>
    /\ UNCHANGED <<regions, args, itemVars>>

(* the process ends; the tool is run again *)
MainExit ==
    /\ pc \in {"done", "failed", "usage"}
    /\ pc' = "start"
    /\ regions' = <<>>
    /\ args' = NoArgs
    /\ stdout' = <<>>
    /\ trace' = <<>>
    /\ UNCHANGED <<cacheVars, itemVars, outVars>>

-----------------------------------------------------------------------------
(* Initial states *)

InitCache ==
    /\ now = 0
    /\ ticks = 0
    /\ files \in [Keys -> UNION {InitialFiles(k) : k \in Keys}]
    /\ \A k \in Keys : files[k] \in InitialFiles(k)
    /\ cacheFolder \in BOOLEAN
    /\ (\E k \in Keys : files[k].exists) => cacheFolder
    /\ call = NoCall
    /\ fetched = [k \in Keys |-> NoValue]
    /\ payload = [k \in Keys |-> <<>>]

InitFixedCache ==
    /\ now = 0
    /\ ticks = 0
    /\ files = [k \in Keys |-> NoFile]
    /\ cacheFolder = FALSE
    /\ call = NoCall
    /\ fetched = [k \in Keys |-> NoValue]
    /\ payload = [k \in Keys |-> <<>>]

InitMainIdle ==
    /\ pc = "idle"
    /\ regions = <<>>
    /\ args = NoArgs
    /\ stdout = <<>>
    /\ trace = <<>>

InitItemsIdle ==
    /\ idata = VArr(<<>>)
    /\ iargs = [item |-> "", required |-> FALSE]
    /\ iresult = [done |-> FALSE, all |-> <<>>, req |-> <<>>, got |-> <<>>]

InitOutIdle ==
    /\ outfile = [exists |-> FALSE, content |-> <<>>]
    /\ wlast = [n |-> 0]
    /\ wlog = [clean |-> FALSE, lines |-> <<>>]

InitItems ==
    /\ idata \in {VArr(l) : l \in SeqsUpTo(Descriptors, MaxServices)}
    /\ iargs \in [item : {"urls", "ips"}, required : BOOLEAN]
    /\ iresult = [done |-> FALSE, all |-> <<>>, req |-> <<>>, got |-> <<>>]

-----------------------------------------------------------------------------
(* Spec: any caller of use_cache, and the clock *)

(* Any caller: use_cache on any key, with or without ignorecache *)
UseCache ==
    /\ \E key \in Keys : \E resp \in Responses(key) : \E ignorecache \in BOOLEAN :
          UseCacheStep(key, resp, ignorecache)
    /\ UNCHANGED <<mainVars, itemVars, outVars>>

ClockStep == Tick /\ UNCHANGED <<mainVars, itemVars, outVars>>

Init == InitCache /\ InitMainIdle /\ InitItemsIdle /\ InitOutIdle

Next == UseCache \/ ClockStep

Spec == Init /\ [][Next]_vars

-----------------------------------------------------------------------------
(* SpecMain: invocations of the tool, and the clock *)

MainClock == Tick /\ UNCHANGED <<mainVars, itemVars, outVars>>

MainInit ==
    /\ InitCache /\ InitItemsIdle /\ InitOutIdle
    /\ pc = "start"
    /\ regions = <<>>
    /\ args = NoArgs
    /\ stdout = <<>>
    /\ trace = <<>>

MainNext == MainRegions \/ MainParse \/ MainItems \/ MainExit \/ MainClock

SpecMain == MainInit /\ [][MainNext]_vars

-----------------------------------------------------------------------------
(* SpecItems: get_items on given data; SpecOut: write_to_file on one file *)

ItemsInit == InitFixedCache /\ InitMainIdle /\ InitItems /\ InitOutIdle

ItemsNext == GetItems

SpecItems == ItemsInit /\ [][ItemsNext]_vars

OutInit == InitFixedCache /\ InitMainIdle /\ InitItemsIdle /\ InitOutIdle

OutNext == WriteToFile

SpecOut == OutInit /\ [][OutNext]_vars

-----------------------------------------------------------------------------
(* Claims about the JSON cache, read off the most recent call *)

IsCall == call.key \in Keys
Age(c) == c.at - c.pre.mtime
Fresh(c) == c.pre.exists /\ Age(c) < CACHE_TIMEOUT
ValidJson(content) == Decodable(content) /\ parse_json(content).ok
Produced(c) == get_json_from_url(c.resp)

(* C1: once a rebuild has stored producer result d under a key, a later call  *)
(* on that key without ignorecache, while the file is younger than 3600 s,    *)
(* returns a value equal to d, runs its producer zero times and leaves the    *)
(* file as it was.                                                            *)
C1_RoundTrip ==
    (IsCall /\ ~call.ignorecache /\ call.built # NoValue /\ Fresh(call))
        => /\ call.exc = "none"
           /\ call.data = call.built
           /\ call.invocations = 0
           /\ files[call.key] = call.pre

C1_Witness ==
    /\ IsCall /\ ~call.ignorecache /\ call.built # NoValue /\ Fresh(call)
    /\ Age(call) = CACHE_TIMEOUT - 1
    /\ call.data = call.built
    /\ ~call.resp.err /\ parse_json(call.resp.body).ok
    /\ parse_json(call.resp.body).val # call.data

(* C2: a cache file is valid only while its age is strictly below 3600 s: on  *)
(* a call without ignorecache on an existing file aged 3600 s or more the     *)
(* producer runs exactly once, and when it returns d the file is rewritten    *)
(* with d and d (not the old content) is returned.                            *)
C2_Expiry ==
    (IsCall /\ ~call.ignorecache /\ call.pre.exists /\ Age(call) >= CACHE_TIMEOUT)
        => /\ call.invocations = 1
           /\ Produced(call).exc = "none"
                => /\ call.exc = "none"
                   /\ call.data = Produced(call).val
                   /\ files[call.key].content = json_dumps(Produced(call).val)
                   /\ files[call.key].mtime = call.at

C2_Witness ==
    /\ IsCall /\ ~call.ignorecache /\ call.pre.exists
    /\ Age(call) = CACHE_TIMEOUT
    /\ ValidJson(call.pre.content)
    /\ Produced(call).exc = "none"
    /\ call.data # parse_json(call.pre.content).val
    /\ files[call.key].content # call.pre.content

(* C3: with ignorecache the producer runs exactly once whatever the file is   *)
(* (missing, stale, corrupted, fresh and valid), the file is not read, and    *)
(* when the producer returns d the file is rewritten with d and d returned.   *)
C3_ForceRefresh ==
    (IsCall /\ call.ignorecache)
        => /\ call.invocations = 1
           /\ call.reads = 0
           /\ Produced(call).exc = "none"
                => /\ call.exc = "none"
                   /\ call.data = Produced(call).val
                   /\ files[call.key].content = json_dumps(Produced(call).val)
                   /\ files[call.key].mtime = call.at

C3_Witness ==
    /\ IsCall /\ call.ignorecache
    /\ Fresh(call) /\ ValidJson(call.pre.content)
    /\ Produced(call).exc = "none"
    /\ call.data # parse_json(call.pre.content).val
    /\ files[call.key].content # call.pre.content

(* C4: on a call without ignorecache on a fresh file whose content is not     *)
(* valid JSON, when the producer returns d: no exception escapes, the         *)
(* producer ran exactly once, the file holds valid JSON (d serialized) and d  *)
(* is returned.                                                               *)
C4_CorruptionRecovery ==
    (IsCall /\ ~call.ignorecache /\ Fresh(call) /\ ~ValidJson(call.pre.content)
        /\ Produced(call).exc = "none")
        => /\ call.exc = "none"
           /\ call.invocations = 1
           /\ call.data = Produced(call).val
           /\ files[call.key].content = json_dumps(Produced(call).val)
           /\ ValidJson(files[call.key].content)

(* C5: whenever the cache file of a key that has been fetched is valid, its   *)
(* content is byte for byte the response body of the last successful fetch.   *)
C5_ByteForByte ==
    \A k \in Keys :
        (fetched[k] # NoValue /\ files[k].exists /\ ValidJson(files[k].content))
            => files[k].content = payload[k]

(* C5 as amended: once a key has been fetched, its cache file is the          *)
(* json.dumps text of the value parsed from the last successful fetch's body, *)
(* and loads to a value equal to it.                                          *)
C5_SerializedValue ==
    \A k \in Keys :
        fetched[k] # NoValue
            => /\ files[k].exists
               /\ files[k].content = json_dumps(parse_json(payload[k]).val)
               /\ load_cache(files[k]) = [exc |-> "none", val |-> parse_json(payload[k]).val]

C5_Witness ==
    \E k \in Keys :
        /\ fetched[k] # NoValue
        /\ files[k].content # payload[k]
        /\ IsCall /\ call.key = k /\ call.built # NoValue /\ call.invocations = 1
        /\ call.built # fetched[k]

(* C10: when a call takes the rebuild path (ignorecache, or the file missing, *)
(* stale or corrupted) and its producer fails, the failure escapes use_cache, *)
(* the producer ran exactly once, nothing is returned and the cache file is   *)
(* exactly as before the call.                                                *)
RebuildPath(c) ==
    \/ c.ignorecache
    \/ ~Fresh(c)
    \/ (Decodable(c.pre.content) /\ ~parse_json(c.pre.content).ok)

C10_FetchFailure ==
    (IsCall /\ RebuildPath(call) /\ Produced(call).exc # "none")
        => /\ call.exc = Produced(call).exc
           /\ call.invocations = 1
           /\ call.data = NoValue
           /\ files[call.key] = call.pre

C10_Witness ==
    /\ IsCall /\ call.ignorecache /\ Produced(call).exc = "JSONDecodeError"
    /\ Fresh(call) /\ ValidJson(call.pre.content)
    /\ call.exc = "JSONDecodeError"
    /\ files[call.key] = call.pre

-----------------------------------------------------------------------------
(* Claims about the item extractor and the output writer *)

Range(seq) == {seq[i] : i \in 1..Len(seq)}

RECURSIVE IsSubseq(_, _)
IsSubseq(a, b) ==
    IF a = <<>> THEN TRUE
    ELSE IF b = <<>> THEN FALSE
    ELSE IF Head(a) = Head(b) THEN IsSubseq(Tail(a), Tail(b))
    ELSE IsSubseq(a, Tail(b))

Ascending(seq) == \A i \in 1..(Len(seq) - 1) : StrLess(seq[i], seq[i + 1])

(* the values of field item in the descriptors that have it and are not       *)
(* excluded; a descriptor is excluded iff required-only is asked and its      *)
(* required flag is false                                                     *)
Wanted(data, item, required) ==
    UNION {Range([j \in 1..Len(Get(data.v[i], item).v) |-> Get(data.v[i], item).v[j].v]) :
             i \in {n \in 1..Len(data.v) :
                       /\ Has(data.v[n], item)
                       /\ ~(required /\ Get(data.v[n], "required") = VLit("false"))}}

(* C6: get_items returns the strictly ascending (so duplicate-free) sequence  *)
(* of exactly the values of the item field of the descriptors that have the   *)
(* field and are not excluded; the required-only result is a subsequence of   *)
(* the unfiltered one.                                                        *)
C6_ItemExtraction ==
    iresult.done
        => /\ Ascending(iresult.got)
           /\ Range(iresult.got) = Wanted(idata, iargs.item, iargs.required)
           /\ Range(iresult.all) = Wanted(idata, iargs.item, FALSE)
           /\ Range(iresult.req) = Wanted(idata, iargs.item, TRUE)
           /\ Ascending(iresult.all) /\ Ascending(iresult.req)
           /\ IsSubseq(iresult.req, iresult.all)

C6_Witness ==
    /\ iresult.done /\ iargs.required
    /\ Len(iresult.got) >= 2
    /\ iresult.req # iresult.all
    /\ Len(collect(idata.v, iargs.item, FALSE)) > Len(iresult.all)
    /\ \E i \in 1..Len(idata.v) : ~Has(idata.v[i], "ips")

RECURSIVE JoinNL(_)
JoinNL(L) ==
    IF L = <<>> THEN <<>>
    ELSE IF Len(L) = 1 THEN L[1]
    ELSE L[1] \o <<NL>> \o JoinNL(Tail(L))

(* C7: write_to_file without append leaves exactly the entries joined by one  *)
(* newline, with none after the last entry, whatever the file held; with      *)
(* append it leaves the previous content followed directly by that text.      *)
C7_WriteFormat ==
    wlast.n > 0
        => /\ outfile.exists
           /\ outfile.content =
                (IF wlast.append THEN wlast.pre.content ELSE <<>>) \o JoinNL(wlast.data)

C7_Witness ==
    /\ wlast.n > 1 /\ ~wlast.append
    /\ wlast.pre.content # <<>>
    /\ Len(wlast.data) = 2 /\ wlast.data[2] # <<>>
    /\ outfile.content # wlast.pre.content

RECURSIVE SplitLines(_)
SplitLines(content) ==
    IF content = <<>> THEN << <<>> >>
    ELSE LET rest == SplitLines(Tail(content))
         IN IF Head(content) = NL THEN << <<>> >> \o rest
            ELSE << <<Head(content)>> \o rest[1] >> \o Tail(rest)

(* C8: after one overwrite and any number of appends, each of a non-empty     *)
(* list of non-empty newline-free strings, the lines of the file are exactly  *)
(* the entries written, in order, one entry per line.                         *)
C8_OneEntryPerLine ==
    wlog.clean => SplitLines(outfile.content) = wlog.lines

-----------------------------------------------------------------------------
(* Claims about the CLI driver *)

(* C9: in every invocation the region list is looked up first and without     *)
(* ignorecache, so a fresh and valid regions.cache is not rebuilt and stays   *)
(* as it was to the end of the invocation, even with --ignorecache;           *)
(* --ignorecache reaches the selected region's endpoint lookup, which it      *)
(* forces to rebuild; and a call on one key leaves every other key's file     *)
(* alone.                                                                     *)
C9_IndependentRefresh ==
    /\ Len(trace) <= 2
    /\ pc \in {"parse", "items", "usage"} => Len(trace) = 1
    /\ pc = "done" => Len(trace) = 2
    /\ Len(trace) >= 1
          => /\ trace[1].key = RegionsKey
             /\ ~trace[1].ignorecache
             /\ (Fresh(trace[1]) /\ ValidJson(trace[1].pre.content))
                   => trace[1].invocations = 0 /\ trace[1].post = trace[1].pre
             /\ files[RegionsKey] = trace[1].post
    /\ Len(trace) = 2
          => /\ trace[2].key = cache_name(args.region)
             /\ trace[2].key # RegionsKey
             /\ trace[2].ignorecache = args.ignorecache
             /\ args.ignorecache => trace[2].invocations = 1
    /\ IsCall => \A k \in Keys \ {call.key} : files[k] = call.before[k]

C9_Witness ==
    /\ pc = "done" /\ args.ignorecache
    /\ Fresh(trace[1]) /\ ValidJson(trace[1].pre.content)
    /\ trace[1].at > trace[1].pre.mtime
    /\ Fresh(trace[2]) /\ ValidJson(trace[2].pre.content)
    /\ trace[2].invocations = 1
    /\ files[trace[2].key] # trace[2].pre
    /\ files[RegionsKey] = trace[1].pre

====
